---------------------------- MODULE Spec2Model ----------------------------
(***************************************************************************)
(* A model of payroll-mvp: core/calculator.py (PayrollCalculator) and      *)
(* core/validator.py (PayrollValidator), with the rule tables seeded by    *)
(* scripts/data_loader.py.                                                 *)
(*                                                                         *)
(* Money is an integer number of hundredths of a currency unit, so that    *)
(* 15000.50 is 1500050.  A percentage rate is an integer number of         *)
(* hundredths of a percent, so that 8.33 % is 833.  Python's floats are    *)
(* abstracted to exact decimal arithmetic: round(x, 2) is rounding of the  *)
(* exact quotient to the nearest hundredth, ties to even.  Only at an exact *)
(* decimal tie (x.xx5) can the binary float of the code land on the other  *)
(* neighbour.                                                              *)
(*                                                                         *)
(* A text is a sequence of one-character strings, so that str.lower() is   *)
(* a conversion the model computes.  Python's None is the empty sequence   *)
(* and a present value x is <<x>>.                                         *)
(***************************************************************************)
EXTENDS Integers, Sequences, FiniteSets, TLC

VARIABLES
    state_data,       \* PayrollCalculator.state_data: the bound rule table
    state_name,       \* PayrollCalculator.state_name
    allowed_states,   \* PayrollValidator.allowed_states: list of texts
    validator_cache,  \* PayrollValidator.state_data: text -> rule table
    employee_data,    \* the caller's record handed to validate_employee_data
    call,             \* the call in progress: its operation and arguments
    result,           \* what that call returned or raised
    constructed,      \* the arguments the two constructors were given
    calls             \* how many operations have been called so far

vars == <<state_data, state_name, allowed_states, validator_cache,
         employee_data, call, result, constructed, calls>>

calcVars == <<state_data, state_name>>
valVars == <<allowed_states, validator_cache>>

----------------------------------------------------------------------------
(* Bounds of the model. *)

\* Salaries are taken at every multiple of half a unit within MaxOff half-units
\* of each mark of SalaryMarks.
MaxOff == 2

\* Free-form location texts have at most MaxLen characters.
MaxLen == 2

\* A benefits mapping has at most MaxBenefits entries.
MaxBenefits == 2

\* At most MaxCalls operations are called on the two objects.
MaxCalls == 2

----------------------------------------------------------------------------
(* Values. *)

None == <<>>
Some(x) == <<x>>

\* A whole number of currency units, in hundredths.
R(units) == units * 100

\* Rounding to the nearest integer, a tie going to the even neighbour, of a
\* value with integer part q and fractional part r / d, 0 <= r < d.
HalfEven(q, r, d) ==
    IF 2 * r < d THEN q
    ELSE IF 2 * r > d THEN q + 1
    ELSE IF q % 2 = 0 THEN q ELSE q + 1

\* Python's round(x, 2) for x = n / d hundredths: n / d to the nearest
\* hundredth.  d > 0.
Round(n, d) == HalfEven(n \div d, n % d, d)

\* round(amount * (rate / 100), 2) for an amount in hundredths and a rate in
\* hundredths of a percent: amount * rate / 10000, the product taken in two
\* parts to stay within 32-bit integers.
RoundPercent(amount, rate) ==
    LET hi == amount \div 10000
        lo == amount % 10000
    IN  HalfEven(hi * rate + (lo * rate) \div 10000, (lo * rate) % 10000, 10000)

Min(a, b) == IF a <= b THEN a ELSE b

Abs(a) == IF a >= 0 THEN a ELSE 0 - a

RECURSIVE SumSeq(_)
SumSeq(s) == IF s = <<>> THEN 0 ELSE Head(s) + SumSeq(Tail(s))

----------------------------------------------------------------------------
(* Texts and str.lower(). *)

UpperLetters == <<"A", "D", "E", "G", "H", "I", "K", "L", "M", "N", "O", "R", "S", "T">>
LowerLetters == <<"a", "d", "e", "g", "h", "i", "k", "l", "m", "n", "o", "r", "s", "t">>

\* The lowercase letter of each uppercase letter, as a table.
UpperToLower ==
    [ c \in { UpperLetters[i] : i \in 1..Len(UpperLetters) } |->
        LowerLetters[CHOOSE i \in 1..Len(UpperLetters) : UpperLetters[i] = c] ]

LowerChar(c) == IF c \in DOMAIN UpperToLower THEN UpperToLower[c] ELSE c

Lower(text) == [i \in 1..Len(text) |-> LowerChar(text[i])]

T_maharashtra == <<"m", "a", "h", "a", "r", "a", "s", "h", "t", "r", "a">>
T_karnataka == <<"k", "a", "r", "n", "a", "t", "a", "k", "a">>
T_Maharashtra == <<"M", "a", "h", "a", "r", "a", "s", "h", "t", "r", "a">>
T_Karnataka == <<"K", "a", "r", "n", "a", "t", "a", "k", "a">>
T_KARNATAKA == <<"K", "A", "R", "N", "A", "T", "A", "K", "A">>
T_Delhi == <<"D", "e", "l", "h", "i">>
T_Goa == <<"G", "o", "a">>
T_goa == <<"g", "o", "a">>
T_GOA == <<"G", "O", "A">>

----------------------------------------------------------------------------
(* The seeded rule tables. *)

maharashtra_data ==
    [ state_name |-> T_Maharashtra,
      professional_tax |->
        [ monthly_slabs |->
            << [min |-> R(0),     max |-> Some(R(10000)), tax |-> R(0)],
               [min |-> R(10001), max |-> Some(R(15000)), tax |-> R(175)],
               [min |-> R(15001), max |-> Some(R(20000)), tax |-> R(200)],
               [min |-> R(20001), max |-> None,           tax |-> R(300)] >>,
          annual_ceiling |-> R(2500) ],
      provident_fund |->
        [ employee_contribution_rate |-> 1200,
          employer_contribution_rate |-> 1200,
          employer_pension_rate |-> 833,
          employer_epf_rate |-> 367,
          salary_ceiling |-> R(15000),
          admin_charges_rate |-> 50,
          edli_rate |-> 50 ],
      esi |->
        [ employee_contribution_rate |-> 75,
          employer_contribution_rate |-> 325,
          income_threshold |-> R(21000),
          minimum_wage_threshold |-> R(137) ],
      labour_welfare_fund |->
        [ employee_contribution |-> R(6),
          employer_contribution |-> R(12),
          payment_frequency |-> "semi-annual" ] ]

karnataka_data ==
    [ state_name |-> T_Karnataka,
      professional_tax |->
        [ monthly_slabs |->
            << [min |-> R(0),     max |-> Some(R(15000)), tax |-> R(0)],
               [min |-> R(15001), max |-> Some(R(25000)), tax |-> R(200)],
               [min |-> R(25001), max |-> None,           tax |-> R(300)] >>,
          annual_ceiling |-> R(2400) ],
      provident_fund |->
        [ employee_contribution_rate |-> 1200,
          employer_contribution_rate |-> 1200,
          employer_pension_rate |-> 833,
          employer_epf_rate |-> 367,
          salary_ceiling |-> R(15000),
          admin_charges_rate |-> 50,
          edli_rate |-> 50 ],
      esi |->
        [ employee_contribution_rate |-> 75,
          employer_contribution_rate |-> 325,
          income_threshold |-> R(21000),
          minimum_wage_threshold |-> R(142) ],
      labour_welfare_fund |->
        [ employee_contribution |-> R(20),
          employer_contribution |-> R(40),
          payment_frequency |-> "annual" ] ]

\* The rule tables a calculator is constructed from: the two seeded ones, and
\* the Maharashtra table with other labour-welfare-fund rules.
LwfRules ==
    { [ employee_contribution |-> a[1],
        employer_contribution |-> a[2],
        payment_frequency |-> f ] :
      a \in {<<R(6), R(12)>>, <<R(20), R(240)>>},
      f \in {"monthly", "semi-annual", "annual"} }

\* A slab list that is not well formed: it starts above 0, its first two
\* slabs overlap, a slab of tax 0 comes before slabs of positive tax, it has
\* a gap, and its open-ended slab is not the last one.
unordered_slabs ==
    << [min |-> R(10000), max |-> Some(R(15000)), tax |-> R(175)],
       [min |-> R(12000), max |-> Some(R(20000)), tax |-> R(0)],
       [min |-> R(21000), max |-> None,           tax |-> R(300)],
       [min |-> R(9000),  max |-> Some(R(50000)), tax |-> R(200)] >>

RuleTables ==
    {maharashtra_data, karnataka_data}
    \cup { [maharashtra_data EXCEPT !.labour_welfare_fund = l] : l \in LwfRules }
    \cup { [maharashtra_data EXCEPT !.professional_tax.monthly_slabs = unordered_slabs] }

SeededTables == {maharashtra_data, karnataka_data}

----------------------------------------------------------------------------
(* PayrollCalculator. *)

\* A variant of SlabMatches whose upper bound is exclusive.
SlabMatches_exclusive(slab, monthly_salary) ==
    IF slab.max = None
    THEN monthly_salary >= slab.min
    ELSE slab.min <= monthly_salary /\ monthly_salary < slab.max[1]

\* Whether the loop of calculate_professional_tax stops at this slab.
SlabMatches(slab, monthly_salary) ==
    IF slab.max = None
    THEN monthly_salary >= slab.min
    ELSE slab.min <= monthly_salary /\ monthly_salary <= slab.max[1]

\* A variant of ScanSlabs whose loop does not stop at the first match: the
\* tax of the last slab that matches.
ScanSlabs_no_break(slabs, i, monthly_salary) ==
    LET matching == { j \in i..Len(slabs) : SlabMatches(slabs[j], monthly_salary) }
    IN  IF matching = {} THEN 0
        ELSE slabs[CHOOSE j \in matching : \A k \in matching : k <= j].tax

\* The loop over the slabs from index i on: the tax of the first slab that
\* matches, 0 when the list is exhausted.
RECURSIVE ScanSlabs(_, _, _)
ScanSlabs(slabs, i, monthly_salary) ==
    IF i > Len(slabs) THEN 0
    ELSE IF SlabMatches(slabs[i], monthly_salary) THEN slabs[i].tax
    ELSE ScanSlabs(slabs, i + 1, monthly_salary)

calculate_professional_tax(data, monthly_salary) ==
    ScanSlabs(data.professional_tax.monthly_slabs, 1, monthly_salary)

\* A variant of PfApplicableSalary that forgets the ceiling.
PfApplicableSalary_uncapped(base_salary, salary_ceiling) == base_salary

\* The salary the provident-fund rates apply to: the base salary, capped.
PfApplicableSalary(base_salary, salary_ceiling) == Min(base_salary, salary_ceiling)

\* Each unrounded amount is salary * rate; a sum of unrounded amounts over the
\* same salary is the salary times the sum of the rates.
calculate_provident_fund(data, base_salary) ==
    LET pf_data == data.provident_fund
        pf_applicable_salary == PfApplicableSalary(base_salary, pf_data.salary_ceiling)
        employer_rates ==
            pf_data.employer_epf_rate + pf_data.employer_pension_rate
            + pf_data.admin_charges_rate + pf_data.edli_rate
    IN  [ employee_contribution |->
              RoundPercent(pf_applicable_salary, pf_data.employee_contribution_rate),
          employer_epf_contribution |->
              RoundPercent(pf_applicable_salary, pf_data.employer_epf_rate),
          employer_pension_contribution |->
              RoundPercent(pf_applicable_salary, pf_data.employer_pension_rate),
          admin_charges |->
              RoundPercent(pf_applicable_salary, pf_data.admin_charges_rate),
          edli_charges |->
              RoundPercent(pf_applicable_salary, pf_data.edli_rate),
          total_employer_contribution |->
              RoundPercent(pf_applicable_salary, employer_rates),
          total_pf_contribution |->
              RoundPercent(pf_applicable_salary,
                           pf_data.employee_contribution_rate + employer_rates) ]

\* A variant of EsiApplicable that excludes the threshold itself.
EsiApplicable_strict(gross_salary, income_threshold) == gross_salary < income_threshold

\* The test that decides whether ESI applies.
EsiApplicable(gross_salary, income_threshold) == gross_salary <= income_threshold

calculate_esi(data, gross_salary) ==
    LET esi_data == data.esi
    IN  IF EsiApplicable(gross_salary, esi_data.income_threshold)
        THEN [ applicable |-> TRUE,
               employee_contribution |->
                   RoundPercent(gross_salary, esi_data.employee_contribution_rate),
               employer_contribution |->
                   RoundPercent(gross_salary, esi_data.employer_contribution_rate),
               total_contribution |->
                   RoundPercent(gross_salary,
                                esi_data.employee_contribution_rate
                                + esi_data.employer_contribution_rate) ]
        ELSE [ applicable |-> FALSE,
               employee_contribution |-> 0,
               employer_contribution |-> 0,
               total_contribution |-> 0 ]

\* A variant of LwfDivisor with the two divisors exchanged.
LwfDivisor_swapped(payment_frequency) ==
    IF payment_frequency = "semi-annual" THEN 12
    ELSE IF payment_frequency = "annual" THEN 6
    ELSE 1

\* The divisor calculate_labour_welfare_fund applies for a payment frequency.
LwfDivisor(payment_frequency) ==
    IF payment_frequency = "semi-annual" THEN 6
    ELSE IF payment_frequency = "annual" THEN 12
    ELSE 1

calculate_labour_welfare_fund(data) ==
    LET lwf_data == data.labour_welfare_fund
        d == LwfDivisor(lwf_data.payment_frequency)
    IN  [ employee_contribution |-> Round(lwf_data.employee_contribution, d),
          employer_contribution |-> Round(lwf_data.employer_contribution, d),
          total_contribution |->
              Round(lwf_data.employee_contribution + lwf_data.employer_contribution, d),
          payment_frequency |-> lwf_data.payment_frequency ]

\* A variant of StateDataAfterLwf in which the division is applied to the
\* amounts of the bound table.
StateDataAfterLwf_divided(data) ==
    LET d == LwfDivisor(data.labour_welfare_fund.payment_frequency)
    IN  [data EXCEPT !.labour_welfare_fund.employee_contribution = @ \div d,
                     !.labour_welfare_fund.employer_contribution = @ \div d]

\* The bound table after calculate_labour_welfare_fund: the amounts are copied
\* into local names before they are divided, the table keeps its amounts.
StateDataAfterLwf(data) == data

\* The salary calculate_net_salary hands to calculate_provident_fund.
\* A variant that hands it the gross salary.
PfBase_gross(base_salary, gross_salary) == gross_salary

PfBase(base_salary, gross_salary) == base_salary

\* A variant of TotalDeductions that leaves the labour welfare fund out.
TotalDeductions_without_lwf(professional_tax, pf, esi, lwf) ==
    professional_tax + pf + esi

\* The sum of the four employee-side deductions of one period.
TotalDeductions(professional_tax, pf, esi, lwf) ==
    professional_tax + pf + esi + lwf

\* A variant of AnnualProfessionalTax without the ceiling.
AnnualProfessionalTax_uncapped(professional_tax, annual_ceiling) ==
    professional_tax * 12

\* min(professional_tax * 12, annual_ceiling)
AnnualProfessionalTax(professional_tax, annual_ceiling) ==
    Min(professional_tax * 12, annual_ceiling)

\* A variant of AnnualNetSalary that takes twelve times the monthly net.
AnnualNetSalary_uncapped(gross_salary, professional_tax, annual_ceiling, pf, esi, lwf) ==
    (gross_salary - professional_tax - pf - esi - lwf) * 12

\* The annual net salary, from the monthly figures.
AnnualNetSalary(gross_salary, professional_tax, annual_ceiling, pf, esi, lwf) ==
    gross_salary * 12
    - AnnualProfessionalTax(professional_tax, annual_ceiling)
    - pf * 12 - esi * 12 - lwf * 12

\* A variant of CtcDifference that keeps the sign.
CtcDifference_signed(calculated_ctc, ctc) == calculated_ctc - ctc

CtcDifference(calculated_ctc, ctc) == Abs(calculated_ctc - ctc)

\* {k: v * 12 for k, v in benefits.items()}
AnnualBenefits(benefits) ==
    [ i \in 1..Len(benefits) |->
        [name |-> benefits[i].name, value |-> benefits[i].value * 12] ]

\* A variant of TotalBenefits that counts the first benefit only.
TotalBenefits_first(benefits) ==
    IF benefits = <<>> THEN 0 ELSE benefits[1].value

\* sum(benefits.values()), the mapping being the sequence of its entries.
TotalBenefits(benefits) ==
    SumSeq([i \in 1..Len(benefits) |-> benefits[i].value])

calculate_net_salary(data, name, ctc, base_salary, benefits) ==
    LET gross_salary == base_salary + TotalBenefits(benefits)
        professional_tax == calculate_professional_tax(data, gross_salary)
        pf_details == calculate_provident_fund(data, PfBase(base_salary, gross_salary))
        esi_details == calculate_esi(data, gross_salary)
        lwf_details == calculate_labour_welfare_fund(data)
        annual_ceiling == data.professional_tax.annual_ceiling
        total_deductions ==
            TotalDeductions(professional_tax,
                            pf_details.employee_contribution,
                            esi_details.employee_contribution,
                            lwf_details.employee_contribution)
        net_salary == gross_salary - total_deductions
        employer_contributions ==
            pf_details.total_employer_contribution
            + esi_details.employer_contribution
            + lwf_details.employer_contribution
        calculated_ctc == (gross_salary + employer_contributions) * 12
        ctc_difference == CtcDifference(calculated_ctc, ctc)
    IN  [ employee_details |->
            [ monthly |->
                [ base_salary |-> base_salary,
                  benefits |-> benefits,
                  gross_salary |-> gross_salary,
                  deductions |->
                    [ professional_tax |-> professional_tax,
                      pf_contribution |-> pf_details.employee_contribution,
                      esi_contribution |-> esi_details.employee_contribution,
                      labour_welfare_fund |-> lwf_details.employee_contribution,
                      total_deductions |-> total_deductions ],
                  net_salary |-> net_salary ],
              annual |->
                [ base_salary |-> base_salary * 12,
                  benefits |-> AnnualBenefits(benefits),
                  gross_salary |-> gross_salary * 12,
                  deductions |->
                    [ professional_tax |->
                          AnnualProfessionalTax(professional_tax, annual_ceiling),
                      pf_contribution |-> pf_details.employee_contribution * 12,
                      esi_contribution |-> esi_details.employee_contribution * 12,
                      labour_welfare_fund |-> lwf_details.employee_contribution * 12,
                      total_deductions |->
                          TotalDeductions(
                              AnnualProfessionalTax(professional_tax, annual_ceiling),
                              pf_details.employee_contribution * 12,
                              esi_details.employee_contribution * 12,
                              lwf_details.employee_contribution * 12) ],
                  net_salary |->
                      AnnualNetSalary(gross_salary, professional_tax, annual_ceiling,
                                      pf_details.employee_contribution,
                                      esi_details.employee_contribution,
                                      lwf_details.employee_contribution) ] ],
          employer_contributions |->
            [ monthly |->
                [ pf_details |->
                    [ epf_contribution |-> pf_details.employer_epf_contribution,
                      pension_contribution |-> pf_details.employer_pension_contribution,
                      admin_charges |-> pf_details.admin_charges,
                      edli_charges |-> pf_details.edli_charges ],
                  esi_contribution |-> esi_details.employer_contribution,
                  labour_welfare_fund |-> lwf_details.employer_contribution,
                  total_contributions |-> employer_contributions ],
              annual |->
                [ pf_details |->
                    [ epf_contribution |-> pf_details.employer_epf_contribution * 12,
                      pension_contribution |->
                          pf_details.employer_pension_contribution * 12,
                      admin_charges |-> pf_details.admin_charges * 12,
                      edli_charges |-> pf_details.edli_charges * 12 ],
                  esi_contribution |-> esi_details.employer_contribution * 12,
                  labour_welfare_fund |-> lwf_details.employer_contribution * 12,
                  total_contributions |-> employer_contributions * 12 ] ],
          ctc |->
            [ provided |-> ctc,
              calculated |-> calculated_ctc,
              difference |-> ctc_difference ],
          compliance |->
            [ state |-> name,
              esi_applicable |-> esi_details.applicable,
              professional_tax_applicable |-> professional_tax > 0 ] ]

----------------------------------------------------------------------------
(* PayrollValidator. *)

\* What a call returned, or the exception it raised.
Return(v) == [ok |-> TRUE, value |-> v]
Raise(e) == [ok |-> FALSE, error |-> e]

Range(s) == { s[i] : i \in 1..Len(s) }

\* The data directory after load_default_states: one file per seeded state,
\* named by the lowercased state.
DataFiles ==
    [ name \in {T_maharashtra, T_karnataka} |->
        IF name = T_maharashtra THEN maharashtra_data ELSE karnataka_data ]

\* PayrollCalculator.load_state_data: the table of the file named by the
\* lowercased state, FileNotFoundError when there is no such file.
load_state_data(state) ==
    LET lowered == Lower(state)
    IN  IF lowered \notin DOMAIN DataFiles
        THEN Raise([kind |-> "FileNotFoundError", state |-> lowered])
        ELSE Return(DataFiles[lowered])

\* __init__: the allow-list built from the argument (None, or a list of texts).
InitAllowedStates(arg) ==
    IF arg = None
    THEN <<T_maharashtra, T_karnataka>>
    ELSE [i \in 1..Len(arg[1]) |-> Lower(arg[1][i])]

\* A variant of InitStateData that caches the Maharashtra table for a state
\* without a data file.
InitStateData_defaulted(allowed) ==
    [ name \in Range(allowed) |->
        IF name \in DOMAIN DataFiles THEN DataFiles[name] ELSE maharashtra_data ]

\* __init__: the rule tables loaded for the allow-list, a state without a data
\* file being skipped.
InitStateData(allowed) ==
    [ name \in (Range(allowed) \cap DOMAIN DataFiles) |-> DataFiles[name] ]

\* A variant of validate_location that looks the text up as it was given.
validate_location_raw(allowed, location) ==
    LET lowered == Lower(location)
    IN  IF location \notin Range(allowed)
        THEN Raise([ kind |-> "not in allowed states",
                     location |-> lowered,
                     allowed_states |-> allowed ])
        ELSE Return(lowered)

validate_location(allowed, location) ==
    LET lowered == Lower(location)
    IN  IF lowered \notin Range(allowed)
        THEN Raise([ kind |-> "not in allowed states",
                     location |-> lowered,
                     allowed_states |-> allowed ])
        ELSE Return(lowered)

\* A variant of AllowedStatesAfterLocation that admits a rejected location
\* from then on.
AllowedStatesAfterLocation_learned(allowed, location) ==
    IF Lower(location) \in Range(allowed) THEN allowed
    ELSE Append(allowed, Lower(location))

\* The allow-list after validate_location: the method reads it and rebinds
\* only its own parameter.
AllowedStatesAfterLocation(allowed, location) == allowed

\* A benefits mapping is the sequence of its entries [name, value] in insertion
\* order, the names distinct.
BenefitValues(benefits) == [i \in 1..Len(benefits) |-> benefits[i].value]

\* The loop over benefits.items() from entry i on: the index of the first entry
\* with a negative value, 0 when there is none.
RECURSIVE FirstNegative(_, _)
FirstNegative(benefits, i) ==
    IF i > Len(benefits) THEN 0
    ELSE IF benefits[i].value < 0 THEN i
    ELSE FirstNegative(benefits, i + 1)

\* A variant of GrossExceeds that rejects a gross salary equal to the limit.
GrossExceeds_at_limit(gross_salary, ctc) == 12 * gross_salary >= ctc + 12 * R(1)

\* gross_salary > monthly_ctc + 1 with monthly_ctc = ctc / 12, both sides
\* multiplied by 12.
GrossExceeds(gross_salary, ctc) == 12 * gross_salary > ctc + 12 * R(1)

\* A variant of validate_salary that checks the base salary before the CTC.
validate_salary_base_first(ctc, base_salary, benefits) ==
    LET neg == FirstNegative(benefits, 1)
        gross_salary == base_salary + SumSeq(BenefitValues(benefits))
    IN  IF base_salary <= 0 THEN Raise([kind |-> "Base salary must be positive"])
        ELSE IF ctc <= 0 THEN Raise([kind |-> "CTC must be positive"])
        ELSE IF neg # 0
        THEN Raise([kind |-> "Benefit cannot be negative",
                    benefit_name |-> benefits[neg].name])
        ELSE IF GrossExceeds(gross_salary, ctc)
        THEN Raise([kind |-> "exceeds monthly CTC",
                    gross_salary |-> gross_salary,
                    monthly_ctc_times_12 |-> ctc])
        ELSE Return(TRUE)

validate_salary(ctc, base_salary, benefits) ==
    LET neg == FirstNegative(benefits, 1)
        gross_salary == base_salary + SumSeq(BenefitValues(benefits))
    IN  IF ctc <= 0 THEN Raise([kind |-> "CTC must be positive"])
        ELSE IF base_salary <= 0 THEN Raise([kind |-> "Base salary must be positive"])
        ELSE IF neg # 0
        THEN Raise([kind |-> "Benefit cannot be negative",
                    benefit_name |-> benefits[neg].name])
        ELSE IF GrossExceeds(gross_salary, ctc)
        THEN Raise([kind |-> "exceeds monthly CTC",
                    gross_salary |-> gross_salary,
                    monthly_ctc_times_12 |-> ctc])
        ELSE Return(TRUE)

required_fields == <<"ctc", "base_salary", "location">>

\* The loop over required_fields from index i on: the index of the first field
\* absent from the record, 0 when all are present.
RECURSIVE FirstMissing(_, _)
FirstMissing(data, i) ==
    IF i > Len(required_fields) THEN 0
    ELSE IF required_fields[i] \notin DOMAIN data THEN i
    ELSE FirstMissing(data, i + 1)

\* employee_data.get("benefits", {})
GetBenefits(data) == IF "benefits" \in DOMAIN data THEN data["benefits"] ELSE <<>>

\* A variant of validate_employee_data that validates the salary first.
validate_employee_data_salary_first(allowed, data) ==
    LET missing == FirstMissing(data, 1)
    IN  IF missing # 0
        THEN Raise([kind |-> "Required field is missing",
                    field |-> required_fields[missing]])
        ELSE LET location_outcome == validate_location(allowed, data["location"])
                 salary_outcome ==
                     validate_salary(data["ctc"], data["base_salary"], GetBenefits(data))
             IN  IF ~ salary_outcome.ok THEN salary_outcome
                 ELSE IF ~ location_outcome.ok THEN location_outcome
                 ELSE Return([data EXCEPT !["location"] = location_outcome.value])

validate_employee_data(allowed, data) ==
    LET missing == FirstMissing(data, 1)
    IN  IF missing # 0
        THEN Raise([kind |-> "Required field is missing",
                    field |-> required_fields[missing]])
        ELSE LET location_outcome == validate_location(allowed, data["location"])
                 salary_outcome ==
                     validate_salary(data["ctc"], data["base_salary"], GetBenefits(data))
             IN  IF ~ location_outcome.ok THEN location_outcome
                 ELSE IF ~ salary_outcome.ok THEN salary_outcome
                 ELSE Return([data EXCEPT !["location"] = location_outcome.value])

\* A variant of ArgumentAfterValidate that normalizes the argument in place.
ArgumentAfterValidate_in_place(allowed, data) ==
    IF validate_employee_data(allowed, data).ok
    THEN [data EXCEPT !["location"] = Lower(data["location"])]
    ELSE data

\* The caller's record once validate_employee_data has returned or raised: the
\* normalized location is written to a copy, never to the argument.
ArgumentAfterValidate(allowed, data) == data

----------------------------------------------------------------------------
(* The arguments the callers pass. *)

\* Salary marks: the slab bounds of the seeded tables, the provident-fund
\* ceiling, the ESI threshold and the salaries of the tests.
SalaryMarks ==
    { R(0), R(9000), R(10000), R(12000), R(15000), R(20000), R(21000),
      R(25000), R(50000) }

\* Two salaries none of whose contributions falls halfway between two hundredths.
PennySalaries == { R(10000) + 4, R(10000) + 13 }

Salaries ==
    { m + k * 50 : m \in SalaryMarks, k \in (0 - MaxOff)..MaxOff } \cup PennySalaries

\* All texts of at most n characters over an alphabet.
RECURSIVE TextsUpTo(_, _)
TextsUpTo(alphabet, n) ==
    IF n = 0 THEN {<<>>}
    ELSE LET shorter == TextsUpTo(alphabet, n - 1)
         IN  shorter \cup { Append(t, c) : t \in shorter, c \in alphabet }

Locations ==
    { T_maharashtra, T_Maharashtra, T_karnataka, T_Karnataka, T_KARNATAKA,
      T_Delhi, T_Goa, T_goa, T_GOA }
    \cup TextsUpTo({"g", "G", "o", "O", "a", "A"}, MaxLen)

\* The states load_state_data is asked for: with and without a data file, in
\* several spellings.
LoadStates ==
    { T_maharashtra, T_Maharashtra, T_KARNATAKA, T_Delhi, T_Goa, T_goa, <<>> }

\* The arguments PayrollValidator is constructed with.
ValidatorArgs ==
    { None, Some(<<T_Maharashtra, T_KARNATAKA>>), Some(<<T_Goa, T_maharashtra>>) }

CtcValues == { R(0 - 1200), 0, R(1200), R(1200) + 6 }
BaseValues == { R(0 - 1), 0, R(99), R(100) }
BenefitAmounts == { R(0 - 1), 0, R(1), R(1) + 1 }
BenefitNames == { "hra", "conveyance", "bonus" }

\* The benefits mappings of at most n entries.
RECURSIVE BenefitsUpTo(_)
BenefitsUpTo(n) ==
    IF n = 0 THEN {<<>>}
    ELSE LET shorter == BenefitsUpTo(n - 1)
         IN  shorter \cup
             { Append(b, [name |-> k, value |-> v]) :
                 b \in { x \in shorter : Len(x) = n - 1 },
                 k \in BenefitNames, v \in BenefitAmounts }

DistinctNames(benefits) ==
    \A i, j \in 1..Len(benefits) : benefits[i].name = benefits[j].name => i = j

BenefitMaps == { b \in BenefitsUpTo(MaxBenefits) : DistinctNames(b) }

\* The records handed to validate_employee_data: each field absent (None) or
\* present.
EmployeeFields == <<"ctc", "base_salary", "location", "benefits", "employee_id">>

MakeEmployee(ctc, base_salary, location, benefits, employee_id) ==
    LET given == <<ctc, base_salary, location, benefits, employee_id>>
        present == { i \in 1..Len(EmployeeFields) : given[i] # None }
    IN  [ f \in { EmployeeFields[i] : i \in present } |->
            given[CHOOSE i \in present : EmployeeFields[i] = f][1] ]

EmployeeRecords ==
    { MakeEmployee(c, b, l, n, e) :
        c \in {None, Some(0), Some(R(1200))},
        b \in {None, Some(0), Some(R(100))},
        l \in {None, Some(T_Maharashtra), Some(T_maharashtra), Some(T_KARNATAKA),
               Some(T_Delhi), Some(T_Goa)},
        n \in {None, Some(<<>>), Some(<<[name |-> "hra", value |-> R(1)]>>),
               Some(<<[name |-> "hra", value |-> R(2)]>>),
               Some(<<[name |-> "hra", value |-> R(0 - 1)]>>)},
        e \in {None, Some("E042")} }

\* The arguments of calculate_net_salary: annual costs, monthly base salaries
\* and benefit mappings, the salaried employee of the test suite among them.
NetCtcValues == { R(0 - 1200), 0, R(300000) }
NetBaseValues == { R(1), R(9000) + 50, R(12000), R(15000), R(20000) }
NetBenefitAmounts == { 50, R(1000), R(6000) }
NetBenefitNames == { "hra", "conveyance" }

NetBenefitMaps ==
    { b \in UNION { [1..n -> [name : NetBenefitNames, value : NetBenefitAmounts]] :
                    n \in 0..MaxBenefits } : DistinctNames(b) }

----------------------------------------------------------------------------
(* The state machine. *)

Idle == [op |-> "idle"]
NoResult == [ok |-> TRUE, value |-> None]
NoRecord == <<>>

\* After PayrollCalculator(table) and PayrollValidator(arg) are constructed.
Init ==
    /\ \E table \in RuleTables, arg \in ValidatorArgs :
         /\ constructed = [state_data |-> table, allowed_states |-> arg]
         /\ state_data = table
         /\ state_name = table.state_name
         /\ allowed_states = InitAllowedStates(arg)
         /\ validator_cache = InitStateData(InitAllowedStates(arg))
    /\ calls = 0
    /\ employee_data = NoRecord
    /\ call = Idle
    /\ result = NoResult

CalculateProfessionalTax ==
    /\ call = Idle
    /\ calls < MaxCalls
    /\ calls' = calls + 1
    /\ \E s \in Salaries :
         /\ call' = [op |-> "calculate_professional_tax", monthly_salary |-> s]
         /\ result' = Return(calculate_professional_tax(state_data, s))
    /\ UNCHANGED <<constructed, calcVars, valVars, employee_data>>

CalculateProvidentFund ==
    /\ call = Idle
    /\ calls < MaxCalls
    /\ calls' = calls + 1
    /\ \E s \in Salaries :
         /\ call' = [op |-> "calculate_provident_fund", base_salary |-> s]
         /\ result' = Return(calculate_provident_fund(state_data, s))
    /\ UNCHANGED <<constructed, calcVars, valVars, employee_data>>

CalculateEsi ==
    /\ call = Idle
    /\ calls < MaxCalls
    /\ calls' = calls + 1
    /\ \E s \in Salaries :
         /\ call' = [op |-> "calculate_esi", gross_salary |-> s]
         /\ result' = Return(calculate_esi(state_data, s))
    /\ UNCHANGED <<constructed, calcVars, valVars, employee_data>>

CalculateLabourWelfareFund ==
    /\ call = Idle
    /\ calls < MaxCalls
    /\ calls' = calls + 1
    /\ call' = [op |-> "calculate_labour_welfare_fund"]
    /\ result' = Return(calculate_labour_welfare_fund(state_data))
    /\ state_data' = StateDataAfterLwf(state_data)
    /\ UNCHANGED <<constructed, state_name, valVars, employee_data>>

CalculateNetSalary ==
    /\ call = Idle
    /\ calls < MaxCalls
    /\ calls' = calls + 1
    /\ \E c \in NetCtcValues, b \in NetBaseValues, n \in NetBenefitMaps :
         /\ call' = [op |-> "calculate_net_salary", ctc |-> c, base_salary |-> b,
                     benefits |-> n]
         /\ result' = Return(calculate_net_salary(state_data, state_name, c, b, n))
    /\ state_data' = StateDataAfterLwf(state_data)
    /\ UNCHANGED <<constructed, state_name, valVars, employee_data>>

LoadStateData ==
    /\ call = Idle
    /\ calls < MaxCalls
    /\ calls' = calls + 1
    /\ \E l \in LoadStates :
         /\ call' = [op |-> "load_state_data", state |-> l]
         /\ result' = load_state_data(l)
    /\ UNCHANGED <<constructed, calcVars, valVars, employee_data>>

ValidateLocation ==
    /\ call = Idle
    /\ calls < MaxCalls
    /\ calls' = calls + 1
    /\ \E l \in Locations :
         /\ call' = [op |-> "validate_location", location |-> l]
         /\ result' = validate_location(allowed_states, l)
         /\ allowed_states' = AllowedStatesAfterLocation(allowed_states, l)
    /\ UNCHANGED <<constructed, calcVars, validator_cache, employee_data>>

ValidateSalary ==
    /\ call = Idle
    /\ calls < MaxCalls
    /\ calls' = calls + 1
    /\ \E c \in CtcValues, b \in BaseValues, n \in BenefitMaps :
         /\ call' = [op |-> "validate_salary", ctc |-> c, base_salary |-> b,
                     benefits |-> n]
         /\ result' = validate_salary(c, b, n)
    /\ UNCHANGED <<constructed, calcVars, valVars, employee_data>>

ValidateEmployeeData ==
    /\ call = Idle
    /\ calls < MaxCalls
    /\ calls' = calls + 1
    /\ \E d \in EmployeeRecords :
         /\ call' = [op |-> "validate_employee_data", employee_data |-> d]
         /\ result' = validate_employee_data(allowed_states, d)
         /\ employee_data' = ArgumentAfterValidate(allowed_states, d)
         /\ allowed_states' =
                IF FirstMissing(d, 1) = 0
                THEN AllowedStatesAfterLocation(allowed_states, d["location"])
                ELSE allowed_states
    /\ UNCHANGED <<constructed, calcVars, validator_cache>>

\* The caller takes the outcome and drops its record; the next call may start.
CallerContinues ==
    /\ call # Idle
    /\ call' = Idle
    /\ result' = NoResult
    /\ employee_data' = NoRecord
    /\ UNCHANGED <<constructed, calls, calcVars, valVars>>

Next ==
    \/ CalculateProfessionalTax
    \/ CalculateProvidentFund
    \/ CalculateEsi
    \/ CalculateLabourWelfareFund
    \/ CalculateNetSalary
    \/ LoadStateData
    \/ ValidateLocation
    \/ ValidateSalary
    \/ ValidateEmployeeData
    \/ CallerContinues

Spec == Init /\ [][Next]_vars

----------------------------------------------------------------------------
(* Properties of the calculator. *)

\* The inclusive range of a slab, as the rule table states it.
InSlab(slab, salary) ==
    /\ slab.min <= salary
    /\ slab.max # None => salary <= slab.max[1]

\* The indices of the slabs whose range holds a salary.
SlabsHolding(slabs, salary) == { i \in 1..Len(slabs) : InSlab(slabs[i], salary) }

IsProfessionalTaxCall == call.op = "calculate_professional_tax"

HasMaharashtraSlabs ==
    state_data.professional_tax.monthly_slabs
        = maharashtra_data.professional_tax.monthly_slabs

\* C1: with the seeded Maharashtra slabs, calculate_professional_tax returns 0
\* for 9000 and 10000, 175 for 10001 and 15000, 200 for 15001 and 20000, 300
\* for 20001 and 50000, and for every whole salary s >= 0 the tax of the one
\* slab whose inclusive range holds s.
C1_MaharashtraSlabTax ==
    (IsProfessionalTaxCall /\ HasMaharashtraSlabs) =>
        LET s == call.monthly_salary
            slabs == state_data.professional_tax.monthly_slabs
            tax == result.value
        IN  /\ result.ok
            /\ s \in {R(9000), R(10000)} => tax = R(0)
            /\ s \in {R(10001), R(15000)} => tax = R(175)
            /\ s \in {R(15001), R(20000)} => tax = R(200)
            /\ s \in {R(20001), R(50000)} => tax = R(300)
            /\ (s >= 0 /\ s % 100 = 0) =>
                   /\ Cardinality(SlabsHolding(slabs, s)) = 1
                   /\ \A i \in SlabsHolding(slabs, s) : tax = slabs[i].tax

C1_Witness ==
    /\ IsProfessionalTaxCall
    /\ HasMaharashtraSlabs
    /\ call.monthly_salary = R(20001)
    /\ result.value = R(300)

\* C2: with a seeded table, calculate_professional_tax is a step function of
\* the salary taken in hundredths: every salary s >= 0 lies in exactly one
\* slab, the tax returned is the tax of some slab, and no smaller salary
\* s1 >= 0 has a larger tax.
C2_StepFunction ==
    (IsProfessionalTaxCall /\ state_data \in SeededTables /\ call.monthly_salary >= 0) =>
        LET s == call.monthly_salary
            slabs == state_data.professional_tax.monthly_slabs
            tax == result.value
        IN  /\ Cardinality(SlabsHolding(slabs, s)) = 1
            /\ \E i \in 1..Len(slabs) : tax = slabs[i].tax
            /\ \A s1 \in Salaries :
                   (0 <= s1 /\ s1 <= s) =>
                       calculate_professional_tax(state_data, s1) <= tax

IsProvidentFundCall == call.op = "calculate_provident_fund"

\* C3: calculate_provident_fund applies every rate to min(base_salary,
\* salary_ceiling): at or above the ceiling every field is that of
\* calculate_provident_fund(salary_ceiling) (1800.00 for base 20000, ceiling
\* 15000, rate 12 %); at or below it employee_contribution is
\* base_salary * employee_rate / 100 rounded to 2 decimals.
C3_ProvidentFundCap ==
    IsProvidentFundCall =>
        LET b == call.base_salary
            pf == state_data.provident_fund
            out == result.value
        IN  /\ result.ok
            /\ b >= pf.salary_ceiling =>
                   out = calculate_provident_fund(state_data, pf.salary_ceiling)
            /\ b <= pf.salary_ceiling =>
                   out.employee_contribution
                       = Round(b * pf.employee_contribution_rate, 10000)
            /\ ( /\ b = R(20000)
                 /\ pf.salary_ceiling = R(15000)
                 /\ pf.employee_contribution_rate = 1200 ) =>
                   out.employee_contribution = R(1800)

C3_Witness ==
    /\ IsProvidentFundCall
    /\ call.base_salary = R(20000)
    /\ state_data.provident_fund.salary_ceiling = R(15000)
    /\ result.value.employee_contribution = R(1800)

IsEsiCall == call.op = "calculate_esi"

IsLwfCall == call.op = "calculate_labour_welfare_fund"

\* C5: calculate_labour_welfare_fund returns the table's employee and employer
\* amounts divided by 6 for "semi-annual", by 12 for "annual", undivided for
\* "monthly", rounded to 2 decimals (annual 240 gives 20.00, semi-annual 12
\* gives 2.00), echoes payment_frequency, and takes no salary.
C5_LwfFrequency ==
    IsLwfCall =>
        LET lwf == state_data.labour_welfare_fund
            f == lwf.payment_frequency
            out == result.value
        IN  /\ result.ok
            /\ DOMAIN call = {"op"}
            /\ out.payment_frequency = f
            /\ f = "semi-annual" =>
                   /\ out.employee_contribution = Round(lwf.employee_contribution, 6)
                   /\ out.employer_contribution = Round(lwf.employer_contribution, 6)
            /\ f = "annual" =>
                   /\ out.employee_contribution = Round(lwf.employee_contribution, 12)
                   /\ out.employer_contribution = Round(lwf.employer_contribution, 12)
            /\ f = "monthly" =>
                   /\ out.employee_contribution = lwf.employee_contribution
                   /\ out.employer_contribution = lwf.employer_contribution
            /\ (f = "annual" /\ lwf.employer_contribution = R(240)) =>
                   out.employer_contribution = R(20)
            /\ (f = "semi-annual" /\ lwf.employer_contribution = R(12)) =>
                   out.employer_contribution = R(2)

C5_Witness ==
    /\ IsLwfCall
    /\ state_data.labour_welfare_fund.payment_frequency = "annual"
    /\ state_data.labour_welfare_fund.employer_contribution = R(240)
    /\ result.value.employer_contribution = R(20)

----------------------------------------------------------------------------
(* Properties of the validator. *)

IsValidateSalaryCall == call.op = "validate_salary"

HasNegativeBenefit(benefits) == \E i \in 1..Len(benefits) : benefits[i].value < 0

GrossOf(base_salary, benefits) == base_salary + SumSeq(BenefitValues(benefits))

SalaryErrorKinds ==
    << "CTC must be positive", "Base salary must be positive",
       "Benefit cannot be negative", "exceeds monthly CTC" >>

\* C6: validate_salary raises the error of the first violated check in the
\* order ctc <= 0, base_salary <= 0, the first negative benefit in insertion
\* order (named in the error), gross above the monthly CTC; the four kinds
\* differ pairwise and only the earliest violated check is reported.
C6_SalaryErrorOrder ==
    IsValidateSalaryCall =>
        LET c == call.ctc
            b == call.base_salary
            n == call.benefits
        IN  /\ c <= 0 => (~ result.ok /\ result.error.kind = SalaryErrorKinds[1])
            /\ (c > 0 /\ b <= 0) =>
                   (~ result.ok /\ result.error.kind = SalaryErrorKinds[2])
            /\ (c > 0 /\ b > 0 /\ HasNegativeBenefit(n)) =>
                   /\ ~ result.ok
                   /\ result.error.kind = SalaryErrorKinds[3]
                   /\ \E i \in 1..Len(n) :
                          /\ n[i].value < 0
                          /\ \A j \in 1..(i - 1) : n[j].value >= 0
                          /\ result.error.benefit_name = n[i].name
            /\ ( /\ c > 0 /\ b > 0 /\ ~ HasNegativeBenefit(n)
                 /\ 12 * GrossOf(b, n) > c + 12 * R(1) ) =>
                   (~ result.ok /\ result.error.kind = SalaryErrorKinds[4])
            /\ \A i, j \in 1..Len(SalaryErrorKinds) :
                   SalaryErrorKinds[i] = SalaryErrorKinds[j] => i = j
            /\ ~ result.ok =>
                   \E i \in 1..Len(SalaryErrorKinds) :
                       result.error.kind = SalaryErrorKinds[i]

\* Every check is violated at once, and the CTC error is the one reported.
C6_Witness ==
    /\ IsValidateSalaryCall
    /\ call.ctc <= 0
    /\ call.base_salary <= 0
    /\ Len(call.benefits) = 2
    /\ call.benefits[1].value >= 0
    /\ call.benefits[2].value < 0
    /\ ~ result.ok
    /\ result.error.kind = "CTC must be positive"

\* C7: for ctc > 0, base_salary > 0 and no negative benefit, validate_salary
\* returns True exactly when base_salary + sum(benefits) <= ctc / 12 + 1: it
\* accepts a gross equal to ctc / 12 and to ctc / 12 + 1, and rejects any
\* larger gross with the gross-exceeds-CTC error.
C7_GrossTolerance ==
    ( /\ IsValidateSalaryCall
      /\ call.ctc > 0
      /\ call.base_salary > 0
      /\ ~ HasNegativeBenefit(call.benefits) ) =>
        LET c == call.ctc
            gross == GrossOf(call.base_salary, call.benefits)
        IN  /\ result.ok <=> 12 * gross <= c + 12 * R(1)
            /\ result.ok => result.value = TRUE
            /\ 12 * gross = c => result.ok
            /\ 12 * gross = c + 12 * R(1) => result.ok
            /\ 12 * gross > c + 12 * R(1) =>
                   (~ result.ok /\ result.error.kind = "exceeds monthly CTC")

\* The gross equals ctc / 12 + 1 and is accepted.
C7_Witness ==
    /\ IsValidateSalaryCall
    /\ call.ctc = R(1200)
    /\ call.base_salary > 0
    /\ ~ HasNegativeBenefit(call.benefits)
    /\ GrossOf(call.base_salary, call.benefits) = R(101)
    /\ result.ok

IsValidateLocationCall == call.op = "validate_location"

\* Two characters that are the same letter, in either case.
SameLetter(c1, c2) ==
    \/ c1 = c2
    \/ \E i \in 1..Len(UpperLetters) :
           {c1, c2} = {UpperLetters[i], LowerLetters[i]}

\* Two texts that differ only in letter case.
SameButCase(t1, t2) ==
    /\ Len(t1) = Len(t2)
    /\ \A i \in 1..Len(t1) : SameLetter(t1[i], t2[i])

\* C8: validate_location(raw) succeeds exactly when lowercase(raw) is in the
\* allow-list and then returns lowercase(raw); otherwise its error carries the
\* lowercased text and the whole allow-list.  Texts that differ only in case
\* have the same outcome, a returned value is in the allow-list, and
\* validating a returned value returns it again.
C8_LocationNormalized ==
    IsValidateLocationCall =>
        LET raw == call.location
            lowered == Lower(raw)
        IN  /\ result.ok <=> lowered \in Range(allowed_states)
            /\ result.ok =>
                   /\ result.value = lowered
                   /\ result.value \in Range(allowed_states)
                   /\ validate_location(allowed_states, result.value) = result
            /\ ~ result.ok =>
                   /\ result.error.kind = "not in allowed states"
                   /\ result.error.location = lowered
                   /\ result.error.allowed_states = allowed_states
            /\ \A other \in Locations :
                   SameButCase(raw, other) =>
                       validate_location(allowed_states, other) = result

C8_Witness ==
    /\ IsValidateLocationCall
    /\ call.location = T_KARNATAKA
    /\ result.ok
    /\ result.value = T_karnataka

IsValidateEmployeeCall == call.op = "validate_employee_data"

HasRequiredFields(data) == \A i \in 1..Len(required_fields) : required_fields[i] \in DOMAIN data

IsMissing(outcome, field) ==
    /\ ~ outcome.ok
    /\ outcome.error.kind = "Required field is missing"
    /\ outcome.error.field = field

IsSalaryError(outcome) ==
    /\ ~ outcome.ok
    /\ \E i \in 1..Len(SalaryErrorKinds) : outcome.error.kind = SalaryErrorKinds[i]

\* C9: validate_employee_data reports a missing required field before
\* anything else, naming the first absent one of ctc, base_salary, location;
\* with all three present it reports an invalid location before any salary
\* error; it reports a salary error only when the location is valid; a missing
\* benefits field is no error and stands for an empty mapping.
C9_EmployeeErrorOrder ==
    IsValidateEmployeeCall =>
        LET d == call.employee_data
            fields == DOMAIN d
        IN  /\ "ctc" \notin fields => IsMissing(result, "ctc")
            /\ ("ctc" \in fields /\ "base_salary" \notin fields) =>
                   IsMissing(result, "base_salary")
            /\ ({"ctc", "base_salary"} \subseteq fields /\ "location" \notin fields) =>
                   IsMissing(result, "location")
            /\ HasRequiredFields(d) =>
                   /\ Lower(d["location"]) \notin Range(allowed_states) =>
                          (~ result.ok /\ result.error.kind = "not in allowed states")
                   /\ Lower(d["location"]) \in Range(allowed_states) =>
                          \/ result.ok
                          \/ result = validate_salary(d["ctc"], d["base_salary"],
                                                      GetBenefits(d))
            /\ IsSalaryError(result) =>
                   /\ HasRequiredFields(d)
                   /\ Lower(d["location"]) \in Range(allowed_states)
            /\ (HasRequiredFields(d) /\ "benefits" \notin fields) =>
                   LET with_empty ==
                           validate_employee_data(allowed_states,
                               [f \in fields \cup {"benefits"} |->
                                   IF f = "benefits" THEN <<>> ELSE d[f]])
                   IN  /\ result.ok <=> with_empty.ok
                       /\ ~ result.ok => result.error = with_empty.error

\* The location is invalid and the CTC is too, and the location is reported.
C9_Witness ==
    /\ IsValidateEmployeeCall
    /\ HasRequiredFields(call.employee_data)
    /\ call.employee_data["location"] = T_Delhi
    /\ call.employee_data["ctc"] = 0
    /\ ~ result.ok
    /\ result.error.kind = "not in allowed states"

\* C10: when validate_employee_data succeeds the returned record has the
\* fields of the input, its location is the lowercased input location and
\* every other field is the input's; the caller's record is left as it was,
\* on success and on failure.
C10_ReturnsNormalizedCopy ==
    IsValidateEmployeeCall =>
        LET d == call.employee_data
        IN  /\ employee_data = d
            /\ result.ok =>
                   /\ DOMAIN result.value = DOMAIN d
                   /\ result.value["location"] = Lower(d["location"])
                   /\ \A f \in DOMAIN d \ {"location"} : result.value[f] = d[f]

\* A record with mixed-case location, benefits and an extra field is accepted.
C10_Witness ==
    /\ IsValidateEmployeeCall
    /\ result.ok
    /\ call.employee_data["location"] = T_Maharashtra
    /\ {"benefits", "employee_id"} \subseteq DOMAIN call.employee_data
    /\ result.value["location"] = T_maharashtra
    /\ employee_data["location"] = T_Maharashtra

\* C18: for any slab list, well formed or not, calculate_professional_tax
\* returns the tax of the first slab in list order that contains the salary
\* (min <= salary <= max, or salary >= min when max is unset), whatever later
\* slabs contain it; it returns 0 exactly when no slab contains the salary or
\* the first that does has tax 0, so a negative salary or a salary between the
\* max of a slab and the min of the next yields 0 and no error.
C18_FirstContainingSlab ==
    IsProfessionalTaxCall =>
        LET slabs == state_data.professional_tax.monthly_slabs
            holding == SlabsHolding(slabs, call.monthly_salary)
            first == CHOOSE i \in holding : \A j \in holding : i <= j
        IN  /\ result.ok
            /\ holding # {} => result.value = slabs[first].tax
            /\ holding = {} => result.value = 0
            /\ result.value = 0 <=> (holding = {} \/ slabs[first].tax = 0)
            /\ call.monthly_salary < 0 => result.value = 0

\* A salary held by several slabs of the unordered list, the first of them
\* with another tax than a later one.
C18_Witness ==
    /\ IsProfessionalTaxCall
    /\ state_data.professional_tax.monthly_slabs = unordered_slabs
    /\ LET holding == SlabsHolding(unordered_slabs, call.monthly_salary)
       IN  /\ Cardinality(holding) >= 2
           /\ \E i, j \in holding :
                  /\ i < j
                  /\ \A k \in holding : i <= k
                  /\ unordered_slabs[i].tax # unordered_slabs[j].tax
                  /\ result.value = unordered_slabs[i].tax

----------------------------------------------------------------------------
(* calculate_net_salary. *)

IsNetSalaryCall == call.op = "calculate_net_salary"

\* The sum of the values of a benefits mapping of a breakdown.
BenefitSum(benefits) == SumSeq([i \in 1..Len(benefits) |-> benefits[i].value])

\* The three equalities of C11 among the figures of one period.
PeriodBalances(period) ==
    /\ period.gross_salary = period.base_salary + BenefitSum(period.benefits)
    /\ period.deductions.total_deductions =
           period.deductions.professional_tax
           + period.deductions.pf_contribution
           + period.deductions.esi_contribution
           + period.deductions.labour_welfare_fund
    /\ period.net_salary =
           period.gross_salary - period.deductions.total_deductions

\* C11: in every breakdown returned by calculate_net_salary the monthly gross
\* salary is the base salary plus the sum of the benefit values, the monthly
\* total of deductions is the sum of the four employee-side figures of the
\* breakdown, and the monthly net salary is the gross salary minus that total;
\* the same three equalities hold among the annual figures.
C11_BreakdownBalances ==
    IsNetSalaryCall =>
        /\ result.ok
        /\ PeriodBalances(result.value.employee_details.monthly)
        /\ PeriodBalances(result.value.employee_details.annual)

\* A breakdown with two benefits in which each of the four deductions is charged.
C11_Witness ==
    /\ IsNetSalaryCall
    /\ Len(call.benefits) = 2
    /\ LET d == result.value.employee_details.monthly.deductions
       IN  /\ d.professional_tax > 0
           /\ d.pf_contribution > 0
           /\ d.esi_contribution > 0
           /\ d.labour_welfare_fund > 0

\* Every figure of an annual pf_details is twelve times the monthly one.
PfDetailsTimes12(annual, monthly) ==
    /\ annual.epf_contribution = 12 * monthly.epf_contribution
    /\ annual.pension_contribution = 12 * monthly.pension_contribution
    /\ annual.admin_charges = 12 * monthly.admin_charges
    /\ annual.edli_charges = 12 * monthly.edli_charges

\* C12: in every breakdown returned by calculate_net_salary the annual
\* professional tax is min(12 * monthly professional tax, annual ceiling), so
\* never above the ceiling, while the monthly professional tax is the slab tax
\* of the gross salary without any cap; the other annual deductions (provident
\* fund, ESI, labour welfare fund), every employer contribution, the base
\* salary, every benefit and the gross salary are twelve times the monthly
\* figure.
C12_AnnualFigures ==
    IsNetSalaryCall =>
        LET m == result.value.employee_details.monthly
            a == result.value.employee_details.annual
            em == result.value.employer_contributions.monthly
            ea == result.value.employer_contributions.annual
            ceiling == state_data.professional_tax.annual_ceiling
        IN  /\ a.deductions.professional_tax =
                   Min(12 * m.deductions.professional_tax, ceiling)
            /\ a.deductions.professional_tax <= ceiling
            /\ m.deductions.professional_tax =
                   calculate_professional_tax(state_data, m.gross_salary)
            /\ a.deductions.pf_contribution = 12 * m.deductions.pf_contribution
            /\ a.deductions.esi_contribution = 12 * m.deductions.esi_contribution
            /\ a.deductions.labour_welfare_fund =
                   12 * m.deductions.labour_welfare_fund
            /\ PfDetailsTimes12(ea.pf_details, em.pf_details)
            /\ ea.esi_contribution = 12 * em.esi_contribution
            /\ ea.labour_welfare_fund = 12 * em.labour_welfare_fund
            /\ ea.total_contributions = 12 * em.total_contributions
            /\ a.base_salary = 12 * m.base_salary
            /\ a.gross_salary = 12 * m.gross_salary
            /\ Len(a.benefits) = Len(m.benefits)
            /\ \A i \in 1..Len(m.benefits) :
                   /\ a.benefits[i].name = m.benefits[i].name
                   /\ a.benefits[i].value = 12 * m.benefits[i].value

\* A breakdown whose monthly professional tax, taken twelve times, is above
\* the annual ceiling, with benefits and an ESI contribution to annualize.
C12_Witness ==
    /\ IsNetSalaryCall
    /\ Len(call.benefits) > 0
    /\ 12 * result.value.employee_details.monthly.deductions.professional_tax
           > state_data.professional_tax.annual_ceiling
    /\ result.value.employer_contributions.monthly.esi_contribution > 0

BreakdownSections ==
    {"employee_details", "employer_contributions", "ctc", "compliance"}

\* C13: calculate_net_salary reports the ctc argument as ctc.provided,
\* (monthly gross + monthly employer total_contributions) * 12 as
\* ctc.calculated and the absolute value of their difference, never negative,
\* as ctc.difference; whatever the difference, a non-positive ctc or a gross
\* salary far above ctc / 12 included, it returns a complete breakdown and no
\* error.
C13_CtcAdvisory ==
    IsNetSalaryCall =>
        /\ result.ok
        /\ DOMAIN result.value = BreakdownSections
        /\ LET c == result.value.ctc
               gross == result.value.employee_details.monthly.gross_salary
               employer ==
                   result.value.employer_contributions.monthly.total_contributions
           IN  /\ c.provided = call.ctc
               /\ c.calculated = (gross + employer) * 12
               /\ c.difference = Abs(c.calculated - c.provided)
               /\ c.difference >= 0

\* A breakdown returned for a negative cost and a gross salary above it.
C13_Witness ==
    /\ IsNetSalaryCall
    /\ result.ok
    /\ call.ctc < 0
    /\ result.value.employee_details.monthly.gross_salary > 0
    /\ result.value.ctc.difference > 0

\* C14: totals are sums of the rounded components: for every base salary the
\* total_employer_contribution of calculate_provident_fund is the sum of the
\* returned employer_epf_contribution, employer_pension_contribution,
\* admin_charges and edli_charges, and total_pf_contribution is that sum plus
\* the returned employee_contribution; for every gross salary to which ESI
\* applies the total_contribution of calculate_esi is the returned
\* employee_contribution plus the returned employer_contribution.
C14_TotalsOfRounded ==
    /\ IsProvidentFundCall =>
           LET pf == result.value
               employer == pf.employer_epf_contribution
                           + pf.employer_pension_contribution
                           + pf.admin_charges + pf.edli_charges
           IN  /\ pf.total_employer_contribution = employer
               /\ pf.total_pf_contribution = employer + pf.employee_contribution
    /\ (IsEsiCall /\ result.value.applicable) =>
           result.value.total_contribution =
               result.value.employee_contribution
               + result.value.employer_contribution

\* The annual items of a breakdown, the professional tax and the two
\* aggregates total_deductions and net_salary apart, are twelve times the
\* monthly ones.
AnnualItemsTimes12(b) ==
    LET m == b.employee_details.monthly
        a == b.employee_details.annual
        em == b.employer_contributions.monthly
        ea == b.employer_contributions.annual
    IN  /\ a.base_salary = 12 * m.base_salary
        /\ a.gross_salary = 12 * m.gross_salary
        /\ Len(a.benefits) = Len(m.benefits)
        /\ \A i \in 1..Len(m.benefits) :
               a.benefits[i].value = 12 * m.benefits[i].value
        /\ a.deductions.pf_contribution = 12 * m.deductions.pf_contribution
        /\ a.deductions.esi_contribution = 12 * m.deductions.esi_contribution
        /\ a.deductions.labour_welfare_fund = 12 * m.deductions.labour_welfare_fund
        /\ PfDetailsTimes12(ea.pf_details, em.pf_details)
        /\ ea.esi_contribution = 12 * em.esi_contribution
        /\ ea.labour_welfare_fund = 12 * em.labour_welfare_fund
        /\ ea.total_contributions = 12 * em.total_contributions

\* The call of the test suite: a cost of 300000, a base salary of 15000, an
\* hra of 6000 and a conveyance of 1000, on the seeded Maharashtra table.
IsScenarioCall ==
    /\ IsNetSalaryCall
    /\ state_data = maharashtra_data
    /\ call.ctc = R(300000)
    /\ call.base_salary = R(15000)
    /\ call.benefits = << [name |-> "hra", value |-> R(6000)],
                          [name |-> "conveyance", value |-> R(1000)] >>

\* The monthly figures and the annual professional tax C16 lists.
ScenarioFigures(b) ==
    LET m == b.employee_details.monthly
    IN  /\ m.gross_salary = R(22000)
        /\ m.deductions.professional_tax = R(300)
        /\ m.deductions.pf_contribution = R(1800)
        /\ m.deductions.esi_contribution = 0
        /\ ~ b.compliance.esi_applicable
        /\ m.deductions.labour_welfare_fund = R(1)
        /\ m.net_salary = R(22000) - R(2101)
        /\ m.net_salary = R(19899)
        /\ b.employee_details.annual.deductions.professional_tax = R(2500)

\* C16 as stated: in the scenario the monthly gross salary is 22000, the
\* professional tax 300, the provident fund 1800.00, the ESI 0 and not
\* applicable, the labour welfare fund 1.00, the net salary 19899, the annual
\* professional tax 2500, and every other annual figure, total_deductions and
\* net_salary among them, is twelve times the monthly figure.
C16_EveryAnnualFigureTimes12 ==
    IsScenarioCall =>
        LET m == result.value.employee_details.monthly
            a == result.value.employee_details.annual
        IN  /\ ScenarioFigures(result.value)
            /\ AnnualItemsTimes12(result.value)
            /\ a.deductions.total_deductions = 12 * m.deductions.total_deductions
            /\ a.net_salary = 12 * m.net_salary

\* C16, amended: in the scenario the monthly figures and the annual
\* professional tax are the ones listed, and every annual figure other than
\* the professional tax, total_deductions and net_salary is twelve times the
\* monthly figure; the annual total_deductions is 24112 (not 12 * 2101 = 25212)
\* and the annual net_salary is 239888 (not 12 * 19899 = 238788), the capped
\* annual professional tax entering both.
C16_Scenario ==
    IsScenarioCall =>
        LET a == result.value.employee_details.annual
        IN  /\ ScenarioFigures(result.value)
            /\ AnnualItemsTimes12(result.value)
            /\ a.deductions.total_deductions = R(24112)
            /\ a.net_salary = R(239888)

\* The scenario has been computed.
C16_Witness ==
    /\ IsScenarioCall
    /\ result.ok
    /\ result.value.ctc.provided = R(300000)
    /\ result.value.employee_details.monthly.net_salary = R(19899)

\* The provident-fund lines of a breakdown: the employee's and the employer's.
PfFigures(b) ==
    << b.employee_details.monthly.deductions.pf_contribution,
       b.employer_contributions.monthly.pf_details,
       b.employee_details.annual.deductions.pf_contribution,
       b.employer_contributions.annual.pf_details >>

\* The labour-welfare-fund lines of a breakdown.
LwfFigures(b) ==
    << b.employee_details.monthly.deductions.labour_welfare_fund,
       b.employer_contributions.monthly.labour_welfare_fund,
       b.employee_details.annual.deductions.labour_welfare_fund,
       b.employer_contributions.annual.labour_welfare_fund >>

\* C19: calculate_net_salary computes the professional tax and ESI on the
\* gross salary and the provident fund on the base salary alone: every call
\* returns the provident-fund figures of the call with the same base salary
\* and no benefits (so two calls that differ in their benefits only return the
\* same ones), those of calculate_provident_fund(base_salary); the professional
\* tax, the ESI figures and the esi_applicable flag are those of
\* calculate_professional_tax(gross) and calculate_esi(gross); the
\* labour-welfare-fund figures are those of calculate_labour_welfare_fund,
\* which takes no input, and those of the call with a zero cost, a zero base
\* salary and no benefits, so the same for every input.
C19_BasesOfComputation ==
    IsNetSalaryCall =>
        LET b == result.value
            m == b.employee_details.monthly
            em == b.employer_contributions.monthly
            gross == call.base_salary + BenefitSum(call.benefits)
            pf == calculate_provident_fund(state_data, call.base_salary)
            esi == calculate_esi(state_data, gross)
            lwf == calculate_labour_welfare_fund(state_data)
            no_benefits == calculate_net_salary(state_data, state_name, call.ctc,
                                                call.base_salary, <<>>)
            other_input == calculate_net_salary(state_data, state_name, 0, 0, <<>>)
        IN  /\ PfFigures(no_benefits) = PfFigures(b)
            /\ m.deductions.pf_contribution = pf.employee_contribution
            /\ em.pf_details.epf_contribution = pf.employer_epf_contribution
            /\ em.pf_details.pension_contribution = pf.employer_pension_contribution
            /\ em.pf_details.admin_charges = pf.admin_charges
            /\ em.pf_details.edli_charges = pf.edli_charges
            /\ m.deductions.professional_tax =
                   calculate_professional_tax(state_data, gross)
            /\ b.compliance.professional_tax_applicable =
                   (calculate_professional_tax(state_data, gross) > 0)
            /\ m.deductions.esi_contribution = esi.employee_contribution
            /\ em.esi_contribution = esi.employer_contribution
            /\ b.compliance.esi_applicable = esi.applicable
            /\ m.deductions.labour_welfare_fund = lwf.employee_contribution
            /\ em.labour_welfare_fund = lwf.employer_contribution
            /\ LwfFigures(other_input) = LwfFigures(b)

\* A breakdown for a base salary below the provident-fund ceiling with
\* benefits that carry the gross salary over it, ESI still applying.
C19_Witness ==
    /\ IsNetSalaryCall
    /\ call.base_salary < state_data.provident_fund.salary_ceiling
    /\ result.value.employee_details.monthly.gross_salary
           > state_data.provident_fund.salary_ceiling
    /\ result.value.compliance.esi_applicable
    /\ result.value.employee_details.monthly.deductions.professional_tax > 0

\* C20: in every breakdown returned by calculate_net_salary the annual net
\* salary minus twelve times the monthly net salary is
\* max(0, 12 * monthly professional tax - annual ceiling): the annual net is
\* never below twelve times the monthly net, and they are equal exactly when
\* 12 * monthly professional tax <= annual ceiling; with the seeded
\* Maharashtra table a monthly tax of 300 gives an excess of 1100.
C20_AnnualNetExcess ==
    IsNetSalaryCall =>
        LET m == result.value.employee_details.monthly
            a == result.value.employee_details.annual
            ceiling == state_data.professional_tax.annual_ceiling
            over == 12 * m.deductions.professional_tax - ceiling
            excess == a.net_salary - 12 * m.net_salary
        IN  /\ excess = (IF over > 0 THEN over ELSE 0)
            /\ a.net_salary >= 12 * m.net_salary
            /\ (excess = 0) <=> (12 * m.deductions.professional_tax <= ceiling)
            /\ (state_data = maharashtra_data
                    /\ m.deductions.professional_tax = R(300)) =>
                   excess = R(1100)

\* A breakdown of the seeded Maharashtra table with a monthly tax of 300.
C20_Witness ==
    /\ IsNetSalaryCall
    /\ state_data = maharashtra_data
    /\ result.value.employee_details.monthly.deductions.professional_tax = R(300)
    /\ result.value.employee_details.annual.net_salary
           = 12 * result.value.employee_details.monthly.net_salary + R(1100)

----------------------------------------------------------------------------
(* The objects across calls. *)

CalculatorOps ==
    { "calculate_professional_tax", "calculate_provident_fund", "calculate_esi",
      "calculate_labour_welfare_fund", "calculate_net_salary" }

IsCalculatorCall == call.op \in CalculatorOps

\* What the call c returns on a calculator just constructed from table.
FreshCalculatorResult(table, c) ==
    IF c.op = "calculate_professional_tax"
    THEN Return(calculate_professional_tax(table, c.monthly_salary))
    ELSE IF c.op = "calculate_provident_fund"
    THEN Return(calculate_provident_fund(table, c.base_salary))
    ELSE IF c.op = "calculate_esi"
    THEN Return(calculate_esi(table, c.gross_salary))
    ELSE IF c.op = "calculate_labour_welfare_fund"
    THEN Return(calculate_labour_welfare_fund(table))
    ELSE Return(calculate_net_salary(table, table.state_name, c.ctc,
                                     c.base_salary, c.benefits))

\* C15: after any sequence of calls of the calculator's five operations the
\* bound rule table and the state name are those of the construction, and the
\* result of each call is the result of the same call with the same arguments
\* on a calculator just constructed from the same table; the division of the
\* labour-welfare-fund amounts by 6 or 12 never reaches the stored amounts.
C15_CalculatorUnchanged ==
    /\ state_data = constructed.state_data
    /\ state_name = constructed.state_data.state_name
    /\ IsCalculatorCall => result = FreshCalculatorResult(constructed.state_data, call)

\* A call of calculate_labour_welfare_fund that is not the first operation
\* called, on a table whose amounts are divided.
C15_Witness ==
    /\ calls >= 2
    /\ IsLwfCall
    /\ state_data.labour_welfare_fund.payment_frequency # "monthly"
    /\ result.value.employee_contribution
           < constructed.state_data.labour_welfare_fund.employee_contribution

ValidatorOps == { "validate_location", "validate_salary", "validate_employee_data" }

IsValidatorCall == call.op \in ValidatorOps

\* The outcome of the call c on a validator whose allow-list is allowed.
ValidatorOutcome(allowed, c) ==
    IF c.op = "validate_location" THEN validate_location(allowed, c.location)
    ELSE IF c.op = "validate_salary"
    THEN validate_salary(c.ctc, c.base_salary, c.benefits)
    ELSE validate_employee_data(allowed, c.employee_data)

\* C17: after any sequence of validate_location, validate_salary and
\* validate_employee_data calls, failed or not, the allow-list and the cache
\* of rule tables of the validator are what the construction left, and the
\* outcome of each call is determined by its arguments and that allow-list,
\* whatever was called before.
C17_ValidatorUnchanged ==
    LET allowed == InitAllowedStates(constructed.allowed_states)
    IN  /\ allowed_states = allowed
        /\ validator_cache = InitStateData(allowed)
        /\ IsValidatorCall => result = ValidatorOutcome(allowed, call)

\* A second call that validates a location and fails.
C17_Witness ==
    /\ calls >= 2
    /\ IsValidatorCall
    /\ call.op # "validate_salary"
    /\ ~ result.ok
    /\ result.error.kind = "not in allowed states"

----------------------------------------------------------------------------
(* The validator before the calculator. *)

\* Every line of an employer pf_details is at least 0.
PfDetailsNonNegative(pf_details) ==
    /\ pf_details.epf_contribution >= 0
    /\ pf_details.pension_contribution >= 0
    /\ pf_details.admin_charges >= 0
    /\ pf_details.edli_charges >= 0

\* Every deduction of a period of employee_details is at least 0.
DeductionsNonNegative(deductions) ==
    /\ deductions.professional_tax >= 0
    /\ deductions.pf_contribution >= 0
    /\ deductions.esi_contribution >= 0
    /\ deductions.labour_welfare_fund >= 0
    /\ deductions.total_deductions >= 0

\* Every contribution of a period of employer_contributions is at least 0.
ContributionsNonNegative(contributions) ==
    /\ PfDetailsNonNegative(contributions.pf_details)
    /\ contributions.esi_contribution >= 0
    /\ contributions.labour_welfare_fund >= 0
    /\ contributions.total_contributions >= 0

\* C21: for every (ctc, base_salary, benefits) that validate_salary accepts
\* and either seeded rule table, the breakdown of calculate_net_salary has
\* every employee deduction >= 0, every employer contribution >= 0, and a
\* monthly and an annual net salary >= 0.
C21_ValidatedNonNegative ==
    ( /\ IsNetSalaryCall
      /\ state_data \in SeededTables
      /\ validate_salary(call.ctc, call.base_salary, call.benefits).ok ) =>
        LET e == result.value.employee_details
            r == result.value.employer_contributions
        IN  /\ DeductionsNonNegative(e.monthly.deductions)
            /\ DeductionsNonNegative(e.annual.deductions)
            /\ ContributionsNonNegative(r.monthly)
            /\ ContributionsNonNegative(r.annual)
            /\ e.monthly.net_salary >= 0
            /\ e.annual.net_salary >= 0

IsLoadCall == call.op = "load_state_data"

\* The allow-listed states for which there is no data file.
StatesWithoutTable == Range(allowed_states) \ DOMAIN DataFiles

\* C22: the construction of the validator does not fail when the rule table
\* of a state is missing: the allow-list is the supplied keys lowercased, in
\* order (maharashtra and karnataka by default), and the cache holds exactly
\* the allow-listed states whose table loaded, with that table, so its keys
\* are among the allow-list; a state whose table did not load stays in the
\* allow-list, is accepted by validate_location and by validate_employee_data
\* (for a record whose salary is valid), and load_state_data for it fails
\* with the not-found error.
C22_MissingTableTolerated ==
    LET arg == constructed.allowed_states
    IN  /\ arg = None => allowed_states = <<T_maharashtra, T_karnataka>>
        /\ arg # None =>
               /\ Len(allowed_states) = Len(arg[1])
               /\ \A i \in 1..Len(arg[1]) : allowed_states[i] = Lower(arg[1][i])
        /\ DOMAIN validator_cache = Range(allowed_states) \cap DOMAIN DataFiles
        /\ \A name \in DOMAIN validator_cache : validator_cache[name] = DataFiles[name]
        /\ DOMAIN validator_cache \subseteq Range(allowed_states)
        /\ (IsValidateLocationCall /\ Lower(call.location) \in StatesWithoutTable) =>
               result = Return(Lower(call.location))
        /\ ( /\ IsValidateEmployeeCall
             /\ FirstMissing(call.employee_data, 1) = 0
             /\ Lower(call.employee_data["location"]) \in StatesWithoutTable
             /\ validate_salary(call.employee_data["ctc"],
                                call.employee_data["base_salary"],
                                GetBenefits(call.employee_data)).ok ) =>
               /\ result.ok
               /\ result.value["location"] = Lower(call.employee_data["location"])
        /\ IsLoadCall =>
               IF Lower(call.state) \in DOMAIN DataFiles
               THEN result = Return(DataFiles[Lower(call.state)])
               ELSE /\ ~ result.ok
                    /\ result.error.kind = "FileNotFoundError"

\* A validator constructed with a state that has no data file, and then
\* load_state_data called for that state.
C22_Witness ==
    /\ StatesWithoutTable # {}
    /\ calls >= 2
    /\ IsLoadCall
    /\ Lower(call.state) \in StatesWithoutTable
    /\ ~ result.ok

=============================================================================
